---- MODULE Spec2Model ----
(***************************************************************************)
(* Edge orchestrator of the ticketless parking system.                     *)
(*                                                                         *)
(* The repository holds two orchestrators over the same ledger             *)
(* (edge_db.ParkingDatabase) and tracker (ParkingLotTracker):              *)
(*   server.py            checkpoint_handler / booking_handler             *)
(*   server_localTest.py  handle_checkpoint  / booking_handler             *)
(* The variable program says which of the two runs.  Every camera          *)
(* subscription and the booking subscription is one asyncio task that      *)
(* handles one message at a time; a handler runs atomically between two    *)
(* awaits of a remote call, so every action below is one such stretch.     *)
(* booking_handler changes nothing after its only await (the occupancy     *)
(* push of add_booking), so its handling is one action.                    *)
(***************************************************************************)
EXTENDS Integers, Sequences, FiniteSets, TLC

VARIABLES
    program,    \* "server" | "localTest": which orchestrator runs
    cloud,      \* cloud_client and tracker are both present
    allowExit,  \* ALLOW_EXIT_WITHOUT_CLOUD
    sessions,   \* table parking_sessions; the row id is the position
    now,        \* the clock read by _now_iso
    occ,        \* tracker.current_occupancy
    bookings,   \* tracker._bookings
    h,          \* per camera subscription: the handling in progress
    last,       \* the handling that ended last, while audit is on
    texts,      \* the texts the recognizer yields in this run
    audit,      \* whether ended handlings are recorded in last
    registered, \* tracker.registered
    cloudLot,   \* what the cloud holds for the lot, where the tracker is
                \* called directly: is it registered, the occupancy reported
    phase,      \* of main: "starting" | "running" | "stopped"
    queue,      \* the barrier actuator: triggers its subscription holds
    cycle,      \* per callback of the actuator: where open_barrier stands
    lock,       \* BarrierController._lock is held
    position,   \* the position the controller has set the barrier to
    published,  \* the state published last on <barrier_id>.state
    finished    \* the callback of the actuator that returned last

barrierVars == <<queue, cycle, lock, position, published, finished>>

edgeVars == <<program, cloud, allowExit, sessions, now, occ, bookings, h, last, texts,
             audit, registered, cloudLot, phase>>

vars == <<edgeVars, barrierVars>>

------------------------------------------------------------------------------
\* Bounds of the model.
MaxRows == 2
\* tracker.max_capacity (CAR_PARK_CAPACITY), kept small so that the clamp happens
CAR_PARK_CAPACITY == 1

CAR_PARK_ID == "lot-01"
OTHER_PARK_ID == "lot-02"
NoTime == -1

CamTasks == {"camera.entry", "camera.exit"}

\* Texts the recognizer yields, as sequences of characters.
PlateTexts == { <<"A">>, <<"B">> }
BlankTexts == { <<" ">>, <<>> }
\* licensePlate values of booking messages (<<>>: missing or empty)
BookingPlates == { p \in texts : p \in PlateTexts } \cup { <<>> }
BookingActions == {"book", "cancel", "extend"}
\* camera_id headers, as the list of their "_"-separated segments
NoHeader == <<>>
\* IoT/camera/camera.py publishes entry_<n> on camera.entry and exit_<n> on
\* camera.exit; gate_0 stands for any other id
CameraIds(t) ==
    { <<IF t = "camera.entry" THEN "entry" ELSE "exit", "0">>, <<"gate", "0">>,
      NoHeader }

------------------------------------------------------------------------------
\* str.strip()
RECURSIVE lstrip(_)
lstrip(s) == IF s # <<>> /\ Head(s) = " " THEN lstrip(Tail(s)) ELSE s

RECURSIVE rstrip(_)
rstrip(s) ==
    IF s # <<>> /\ s[Len(s)] = " " THEN rstrip(SubSeq(s, 1, Len(s) - 1)) ELSE s

strip(s) == rstrip(lstrip(s))

------------------------------------------------------------------------------
\* edge_db.ParkingDatabase: the session ledger

\* the rows a fresh process can find in the file at DB_PATH: none, or rows
\* another facility wrote to the same file
InitialLedgers ==
    { <<>>,
      << [plate |-> <<"A">>, car_park_id |-> OTHER_PARK_ID, entry_time |-> 0,
          exit_time |-> NoTime, status |-> "inside"] >> }

InsideRows(s, plate, park) ==
    { i \in 1..Len(s) :
        s[i].plate = plate /\ s[i].car_park_id = park /\ s[i].status = "inside" }

\* the query without its status filter: the plate's latest row, whatever
\* its status
get_active_session_any_status(s, plate) ==
    LET rows == { i \in 1..Len(s) :
                    s[i].plate = plate /\ s[i].car_park_id = CAR_PARK_ID }
    IN { i \in rows : \A j \in rows : s[j].entry_time <= s[i].entry_time }

\* the query without its plate filter bound: it matches no row
get_active_session_no_match(s, plate) == {}

\* the query with the status literal misspelt: it matches no row
get_active_session_wrong_status(s, plate) ==
    { i \in 1..Len(s) :
        s[i].plate = plate /\ s[i].car_park_id = CAR_PARK_ID /\ s[i].status = "Inside" }

\* The ids the query may return: WHERE plate, car_park_id, status = 'inside'
\* ORDER BY entry_time DESC LIMIT 1 (any of the rows that tie); {} is None.
get_active_session(s, plate) ==
    LET rows == InsideRows(s, plate, CAR_PARK_ID)
    IN  { i \in rows : \A j \in rows : s[j].entry_time <= s[i].entry_time }

has_active_session(s, plate) == get_active_session(s, plate) # {}

\* the INSERT without the has_active_session check
register_entry_unchecked(s, plate, t) ==
    Append(s, [plate |-> plate, car_park_id |-> CAR_PARK_ID,
               entry_time |-> t, exit_time |-> NoTime, status |-> "inside"])

register_entry(s, plate, t) ==
    IF has_active_session(s, plate)
    THEN s
    ELSE Append(s, [plate |-> plate, car_park_id |-> CAR_PARK_ID,
                    entry_time |-> t, exit_time |-> NoTime, status |-> "inside"])

\* the UPDATE with no plate in its WHERE clause: every inside row of the car
\* park is completed
complete_exit_every_plate(s, plate, t) ==
    { [i \in 1..Len(s) |->
         IF s[i].car_park_id = CAR_PARK_ID /\ s[i].status = "inside"
         THEN [s[i] EXCEPT !.exit_time = t, !.status = "completed"]
         ELSE s[i]] }

\* the subquery of the UPDATE without its status filter: the plate's latest
\* row is written again, completed or not
complete_exit_any_status(s, plate, t) ==
    IF get_active_session_any_status(s, plate) = {}
    THEN {s}
    ELSE { [s EXCEPT ![i].exit_time = t, ![i].status = "completed"] :
             i \in get_active_session_any_status(s, plate) }

\* the UPDATE with no car_park_id in its WHERE clause: the plate's inside
\* rows of every car park are completed
complete_exit_every_park(s, plate, t) ==
    { [i \in 1..Len(s) |->
         IF s[i].plate = plate /\ s[i].status = "inside"
         THEN [s[i] EXCEPT !.exit_time = t, !.status = "completed"]
         ELSE s[i]] }

\* The tables the UPDATE may leave (one per row its subquery may pick).
complete_exit(s, plate, t) ==
    IF get_active_session(s, plate) = {}
    THEN {s}
    ELSE { [s EXCEPT ![i].exit_time = t, ![i].status = "completed"] :
             i \in get_active_session(s, plate) }

------------------------------------------------------------------------------
\* parkinglot_tracker.ParkingLotTracker

\* the value update_occupancy stores for a target (the clamp)
\* the target taken as it comes, without the clamp
update_occupancy_unclamped(new_occupancy) == new_occupancy

update_occupancy(new_occupancy) ==
    IF new_occupancy < 0 THEN 0
    ELSE IF new_occupancy > CAR_PARK_CAPACITY THEN CAR_PARK_CAPACITY
    ELSE new_occupancy

\* the new value only sent, current_occupancy assigned after the push
increment_occupancy_after_push(current) == current

increment_occupancy(current) == update_occupancy(current + 1)

\* the decrement applied without the clamp
decrement_occupancy_unclamped(current) == current - 1

decrement_occupancy(current) == update_occupancy(current - 1)

\* the membership test lost: every plate counts as booked
has_booking_always(b, plate) == TRUE

has_booking(b, plate) == plate \in b

\* the plate never discarded
consume_booking_kept(b, plate) == b

consume_booking(b, plate) == b \ {plate}

------------------------------------------------------------------------------
\* The recognizer's event, as each orchestrator reads it

Topic(t) == IF t = "camera.entry" THEN "entry" ELSE "exit"

\* the camera id a handler works with
camera_id(t, header) ==
    IF program = "server"
    THEN IF header = NoHeader THEN <<"unknown">> ELSE header
    ELSE IF header = NoHeader THEN <<Topic(t)>> ELSE header

\* server_localTest.parse_checkpoint: split("_", 1) must give two parts
parse_checkpoint(cam) == IF Len(cam) < 2 THEN "unknown" ELSE cam[1]

\* every type that is not "entry" taken as "exit"
checkpoint_type_exit_by_default(cam) ==
    IF cam[1] = "entry" THEN "entry" ELSE "exit"

checkpoint_type(cam) ==
    IF program = "server" THEN cam[1] ELSE parse_checkpoint(cam)

\* the plate a handler works with: handle_checkpoint strips it
plate_text(text) == IF program = "server" THEN text ELSE strip(text)

\* handle_checkpoint returns at once on an empty plate
IgnoresPlate(plate) == program = "localTest" /\ plate = <<>>

------------------------------------------------------------------------------
\* One handling of a camera subscription

IdleH ==
    [pc |-> "idle", ctype |-> "none", plate |-> <<>>, barrier_id |-> <<>>,
     paid |-> "none", branch |-> "none", trace |-> <<>>, failed |-> {}]

Start(t, header, text) ==
    [IdleH EXCEPT !.ctype = checkpoint_type(camera_id(t, header)),
                  !.plate = plate_text(text),
                  !.barrier_id = camera_id(t, header)]

Free(t) == h[t].pc = "idle"

\* open_barrier up to its await: one request to <barrier_id>.trigger
RequestBarrier(r, branch, calls) ==
    [r EXCEPT !.pc = "barrier_wait", !.branch = branch,
              !.trace = r.trace \o calls \o <<"open_barrier">>]

NoLast ==
    [task |-> "none", ctype |-> "none", plate |-> <<>>, barrier_id |-> <<>>,
     paid |-> "none", branch |-> "none", trace |-> <<>>, failed |-> {},
     reply |-> "none", outcome |-> "none"]

\* the handler of task t returns (or an exception leaves it)
Ended(t, r, reply, outcome) ==
    [task |-> t, ctype |-> r.ctype, plate |-> r.plate, barrier_id |-> r.barrier_id,
     paid |-> r.paid, branch |-> r.branch, trace |-> r.trace,
     failed |-> r.failed, reply |-> reply, outcome |-> outcome]

\* the clock value a write reads (_now_iso): later than the one before
ClockRead == now + 1

Record(e) == IF audit THEN e ELSE last

\* a remote call of the handling raised (recorded while audit is on)
Note(r, call, res) ==
    IF audit /\ res = "raised" THEN [r EXCEPT !.failed = r.failed \cup {call}]
    ELSE r

\* An event the handler drops: empty plate, or a type that is neither
\* "entry" nor "exit".
IgnoredEvent(t, header, text) ==
    LET r == Start(t, header, text) IN
    /\ Free(t)
    /\ IgnoresPlate(r.plate) \/ r.ctype \notin {"entry", "exit"}
    /\ last' = Record(Ended(t, r, "none", "ignored"))
    /\ UNCHANGED <<registered, cloudLot, phase, program, cloud, allowExit, texts, audit, barrierVars, sessions, now, occ, bookings, h>>

\* An entry event, up to the handler's first await.
EntryEvent(t, header, text) ==
    LET r == Start(t, header, text) IN
    /\ Free(t)
    /\ ~IgnoresPlate(r.plate)
    /\ r.ctype = "entry"
    /\ IF get_active_session(sessions, r.plate) # {}
       THEN /\ h' = [h EXCEPT ![t] = RequestBarrier(r, "reentry", <<>>)]
            /\ UNCHANGED <<sessions, now>>
       ELSE /\ Len(sessions) < MaxRows
            /\ now' = ClockRead
            /\ sessions' = register_entry(sessions, r.plate, now')
            /\ h' = [h EXCEPT ![t] =
                      IF cloud
                      THEN [r EXCEPT !.pc = "enter_wait", !.branch = "new",
                               !.trace = <<"register_entry", "payment_car_enter">>]
                      ELSE RequestBarrier(r, "new", <<"register_entry">>)]
    /\ UNCHANGED <<registered, cloudLot, phase, program, cloud, allowExit, texts, audit, barrierVars, occ, bookings, last>>

\* the barrier requested as soon as payment_car_enter is back, the booking
\* and the occupancy left for later
EnterReturn_barrier_first(t, res) ==
    /\ h[t].pc = "enter_wait"
    /\ h' = [h EXCEPT ![t] =
              RequestBarrier(Note(h[t], "payment_car_enter", res), "new", <<>>)]
    /\ UNCHANGED <<registered, cloudLot, phase, program, cloud, allowExit, texts, audit, barrierVars, sessions, now, occ, bookings, last>>

\* payment_car_enter returned or raised (caught); then the booking is
\* consumed, or the occupancy is incremented and pushed.
EnterReturn(t, res) ==
    LET r == Note(h[t], "payment_car_enter", res) IN
    /\ r.pc = "enter_wait"
    /\ IF has_booking(bookings, r.plate)
       THEN /\ bookings' = consume_booking(bookings, r.plate)
            /\ h' = [h EXCEPT ![t] = RequestBarrier(r, "new", <<"consume_booking">>)]
            /\ UNCHANGED occ
       ELSE /\ occ' = increment_occupancy(occ)
            /\ h' = [h EXCEPT ![t] =
                      [r EXCEPT !.pc = "push_wait",
                                !.trace = r.trace \o <<"increment_occupancy">>]]
            /\ UNCHANGED bookings
    /\ UNCHANGED <<registered, cloudLot, phase, program, cloud, allowExit, texts, audit, barrierVars, sessions, now, last>>

\* The exit logic once the payment check is passed (or skipped in edge-only
\* mode): fail-open without a session, else complete it and decrement.
ExitProceed(t, r) ==
    IF get_active_session(sessions, r.plate) = {}
    THEN /\ h' = [h EXCEPT ![t] = RequestBarrier(r, "no_session", <<>>)]
         /\ UNCHANGED <<sessions, now, occ>>
    ELSE /\ now' = ClockRead
         /\ sessions' \in complete_exit(sessions, r.plate, now')
         /\ IF cloud
            THEN /\ occ' = decrement_occupancy(occ)
                 /\ h' = [h EXCEPT ![t] =
                           [r EXCEPT !.pc = "push_wait", !.branch = "complete",
                                     !.trace = r.trace \o
                                        <<"complete_exit", "decrement_occupancy">>]]
            ELSE /\ h' = [h EXCEPT ![t] =
                           RequestBarrier(r, "complete", <<"complete_exit">>)]
                 /\ UNCHANGED occ

\* ALLOW_EXIT_WITHOUT_CLOUD never read
ExitWithoutCloud_always == TRUE

\* the exit policy of edge-only mode (no cloud client or no tracker)
ExitWithoutCloud == allowExit

\* An exit event, up to the handler's first await.
ExitEvent(t, header, text) ==
    LET r == Start(t, header, text) IN
    /\ Free(t)
    /\ ~IgnoresPlate(r.plate)
    /\ r.ctype = "exit"
    /\ IF cloud
       THEN /\ h' = [h EXCEPT ![t] =
                      [r EXCEPT !.pc = "check_wait", !.trace = <<"payment_check">>]]
            /\ UNCHANGED <<sessions, now, occ, last>>
       ELSE IF ~ExitWithoutCloud
            THEN /\ last' = Record(Ended(t, r, "none", "denied"))
                 /\ UNCHANGED <<sessions, now, occ, h>>
            ELSE /\ ExitProceed(t, r)
                 /\ UNCHANGED last
    /\ UNCHANGED <<registered, cloudLot, phase, program, cloud, allowExit, texts, audit, barrierVars, bookings>>

\* a failed payment check taken as paid
Paid_unless_unpaid(res) == res # "unpaid"

\* what the handler takes as paid from the outcome of payment_check:
\* bool(status.get("paid", False)), and False when the call raised
Paid(res) == res = "paid"

\* payment_check returned ("paid" / "unpaid") or raised.
CheckReturn(t, res) ==
    LET r == [Note(h[t], "payment_check", res) EXCEPT
                 !.paid = IF res = "raised" THEN "raised"
                          ELSE IF res = "paid" THEN "true" ELSE "false"]
    IN
    /\ h[t].pc = "check_wait"
    /\ IF ~Paid(res)
       THEN /\ h' = [h EXCEPT ![t] = IdleH]
            /\ last' = Record(Ended(t, r, "none", "denied"))
            /\ UNCHANGED <<sessions, now, occ>>
       ELSE /\ ExitProceed(t, r)
            /\ UNCHANGED last
    /\ UNCHANGED <<registered, cloudLot, phase, program, cloud, allowExit, texts, audit, barrierVars, bookings>>

\* does an exception of the occupancy push leave the handler?
\* server.py awaits the tracker outside any try; server_localTest.py catches
PushEscapes == program = "server"

\* send_occupancy_update returned or raised.
PushReturn(t, res) ==
    LET r == Note(h[t], "send_occupancy_update", res) IN
    /\ r.pc = "push_wait"
    /\ IF res = "raised" /\ PushEscapes
       THEN /\ h' = [h EXCEPT ![t] = IdleH]
            /\ last' = Record(Ended(t, r, "none", "raised"))
       ELSE /\ h' = [h EXCEPT ![t] =
                      IF r.ctype = "entry"
                      THEN RequestBarrier(r, r.branch, <<>>)
                      ELSE [r EXCEPT !.pc = "payexit_wait",
                                     !.trace = r.trace \o <<"payment_exit">>]]
            /\ UNCHANGED last
    /\ UNCHANGED <<registered, cloudLot, phase, program, cloud, allowExit, texts, audit, barrierVars, sessions, now, occ, bookings>>

\* payment_exit returned or raised (caught).
PayExitReturn(t, res) ==
    /\ h[t].pc = "payexit_wait"
    /\ h' = [h EXCEPT ![t] =
              RequestBarrier(Note(h[t], "payment_exit", res), h[t].branch, <<>>)]
    /\ UNCHANGED <<registered, cloudLot, phase, program, cloud, allowExit, texts, audit, barrierVars, sessions, now, occ, bookings, last>>

\* what can come back for the request to <barrier_id>.trigger
BarrierReplies == {"done", "failed", "timeout", "no_responders"}

\* open_barrier after its await: the handling's terminal outcome.
\* server_localTest.py returns True for "done" and for no responder, False
\* otherwise; server.py catches only the timeout.
open_barrier(reply) ==
    IF program = "server"
    THEN IF reply = "no_responders" THEN "raised"
         ELSE IF reply = "done" THEN "opened" ELSE "not_opened"
    ELSE IF reply \in {"done", "no_responders"} THEN "opened" ELSE "not_opened"

\* a new entry undone when its barrier did not open: the row closed and the
\* occupancy taken back
BarrierReply_rollback(t, reply) ==
    /\ h[t].pc = "barrier_wait"
    /\ h' = [h EXCEPT ![t] = IdleH]
    /\ last' = Record(Ended(t, h[t], reply, open_barrier(reply)))
    /\ IF h[t].branch = "new" /\ reply \in {"failed", "timeout"}
       THEN /\ sessions' \in complete_exit(sessions, h[t].plate, now)
            /\ occ' = decrement_occupancy(occ)
       ELSE UNCHANGED <<sessions, occ>>
    /\ UNCHANGED <<registered, cloudLot, phase, program, cloud, allowExit, texts, audit, barrierVars, now, bookings>>

\* the request sent again after a timeout
BarrierReply_retry(t, reply) ==
    /\ h[t].pc = "barrier_wait"
    /\ IF reply = "timeout"
       THEN /\ h' = [h EXCEPT ![t] = RequestBarrier(h[t], h[t].branch, <<>>)]
            /\ UNCHANGED last
       ELSE /\ h' = [h EXCEPT ![t] = IdleH]
            /\ last' = Record(Ended(t, h[t], reply, open_barrier(reply)))
    /\ UNCHANGED <<registered, cloudLot, phase, program, cloud, allowExit, texts, audit, barrierVars, sessions, now, occ, bookings>>

BarrierReply(t, reply) ==
    /\ h[t].pc = "barrier_wait"
    /\ h' = [h EXCEPT ![t] = IdleH]
    /\ last' = Record(Ended(t, h[t], reply, open_barrier(reply)))
    /\ UNCHANGED <<registered, cloudLot, phase, program, cloud, allowExit, texts, audit, barrierVars, sessions, now, occ, bookings>>

------------------------------------------------------------------------------
\* booking_handler

BookingTask == "booking"

\* the subscription exists: always in server.py, with nc_cloud and tracker
\* in server_localTest.py
BookingSubscribed == program = "server" \/ cloud

\* the plate never added to _bookings
add_booking_unrecorded(b, plate) == b

\* tracker.add_booking up to its await
add_booking(b, plate) == b \cup {plate}

EndedBooking(plate, action, outcome) ==
    [NoLast EXCEPT !.task = BookingTask, !.ctype = action, !.plate = plate,
                   !.outcome = outcome]

\* every action other than "cancel" taken as "book", and a message without
\* plate not dropped
BookingEvent_book_by_default(plate, action, res) ==
    /\ BookingSubscribed
    /\ IF action = "cancel" \/ has_booking(bookings, plate)
       THEN /\ last' = Record(EndedBooking(plate, action, "failed"))
            /\ UNCHANGED <<occ, bookings>>
       ELSE /\ bookings' = add_booking(bookings, plate)
            /\ occ' = update_occupancy(occ + 1)
            /\ last' = Record(EndedBooking(plate, action,
                                    IF res = "ok" THEN "ok" ELSE "failed"))
    /\ UNCHANGED <<registered, cloudLot, phase, program, cloud, allowExit, texts, audit, barrierVars, sessions, now, h>>

\* A booking message.  res is the outcome of the occupancy push of
\* add_booking; the handler catches it.  "cancel" calls
\* tracker.cancel_booking_safe, which ParkingLotTracker does not define: the
\* AttributeError is caught by the handler and nothing changes.
BookingEvent(plate, action, res) ==
    /\ BookingSubscribed
    /\ IF plate = <<>>
       THEN /\ last' = Record(EndedBooking(plate, action, "no_plate"))
            /\ UNCHANGED <<occ, bookings>>
       ELSE IF action = "book"
       THEN IF has_booking(bookings, plate)
            THEN /\ last' = Record(EndedBooking(plate, action, "ok"))
                 /\ UNCHANGED <<occ, bookings>>
            ELSE /\ bookings' = add_booking(bookings, plate)
                 /\ occ' = update_occupancy(occ + 1)
                 /\ last' = Record(EndedBooking(plate, action,
                                         IF res = "ok" THEN "ok" ELSE "failed"))
       ELSE IF action = "cancel"
       THEN /\ last' = Record(EndedBooking(plate, action, "failed"))
            /\ UNCHANGED <<occ, bookings>>
       ELSE /\ last' = Record(EndedBooking(plate, action, "unknown_action"))
            /\ UNCHANGED <<occ, bookings>>
    /\ UNCHANGED <<registered, cloudLot, phase, program, cloud, allowExit, texts, audit, barrierVars, sessions, now, h>>

\* The cloud service is not part of this source tree.  Of its interface:
\* a lot is known from a successful POST /api/parking-lots until a
\* successful DELETE, and a successful POST /api/occupancy replaces the
\* occupancy it holds for the lot.  A request that raised changed nothing.
RegisteredLot == [known |-> TRUE, occ |-> {}]
UnknownLot == [known |-> FALSE, occ |-> {}]
occupancy_posted(lot, value, res) ==
    IF res = "ok" THEN [lot EXCEPT !.occ = {value}] ELSE lot

------------------------------------------------------------------------------
\* IoT/barrier/barrier.py: the barrier actuator.  Its subscription to
\* <BARRIER_ID>.trigger is one task that awaits barrier_callback for one
\* message before it takes the next.

\* Bound: the triggers the subscription holds at most
MaxTriggers == 2

\* the invocations of barrier_callback, told apart
Callbacks == {1, 2}

\* what a sensor call under asyncio.wait_for(..., timeout=10) comes to
SensorResults == {"yes", "no", "timeout"}

\* pc: "idle" | "detecting" | "passing" | "closing"; reply: the trigger
\* carries a reply subject; final: the state to publish after close_barrier;
\* result: what open_barrier is going to return
IdleCycle ==
    [pc |-> "idle", reply |-> FALSE, detected |-> "none", passed |-> "none",
     final |-> "none", result |-> FALSE]

NoneFinished ==
    [callback |-> 0, reply |-> FALSE, detected |-> "none", passed |-> "none",
     result |-> FALSE, payload |-> "none"]

BarrierAtRest ==
    /\ queue = <<>>
    /\ cycle = [c \in Callbacks |-> IdleCycle]
    /\ lock = FALSE
    /\ position = "closed"
    /\ published = "none"
    /\ finished = NoneFinished

\* 'done' whatever open_barrier returned
rep_payload_always_done(success) == "done"

\* barrier_callback: rep_payload = b"done" if success else b"failed"
rep_payload(success) == IF success THEN "done" ELSE "failed"

\* the barrier left where it is
close_barrier_skipped(pos) == pos

\* close_barrier: the position it sets
close_barrier(pos) == "closed"

\* open_barrier returns result, the lock is released, and barrier_callback
\* publishes its reply if the trigger has a reply subject
Return(c, r, result) ==
    /\ cycle' = [cycle EXCEPT ![c] = IdleCycle]
    /\ lock' = FALSE
    /\ finished' = [callback |-> c, reply |-> r.reply, detected |-> r.detected,
                    passed |-> r.passed, result |-> result,
                    payload |-> IF r.reply THEN rep_payload(result) ELSE "none"]

\* a trigger is published to <BARRIER_ID>.trigger, as a request or not
Trigger(reply) ==
    /\ Len(queue) < MaxTriggers
    /\ queue' = Append(queue, reply)
    /\ UNCHANGED <<edgeVars, cycle, lock, position, published, finished>>

\* the callback started for a trigger while another one runs, and
\* open_barrier entered without the lock
Deliver_overlapping(c) ==
    /\ queue # <<>>
    /\ cycle[c].pc = "idle"
    /\ queue' = Tail(queue)
    /\ lock' = TRUE
    /\ cycle' = [cycle EXCEPT ![c] =
                   [IdleCycle EXCEPT !.pc = "detecting", !.reply = Head(queue)]]
    /\ published' = "checking"
    /\ UNCHANGED <<edgeVars, position, finished>>

\* The subscription hands its next trigger to barrier_callback, once the
\* callback before has returned; open_barrier takes the lock, publishes
\* 'checking' and awaits detect_vehicle.
Deliver(c) ==
    /\ queue # <<>>
    /\ \A d \in Callbacks : cycle[d].pc = "idle"
    /\ ~lock
    /\ queue' = Tail(queue)
    /\ lock' = TRUE
    /\ cycle' = [cycle EXCEPT ![c] =
                   [IdleCycle EXCEPT !.pc = "detecting", !.reply = Head(queue)]]
    /\ published' = "checking"
    /\ UNCHANGED <<edgeVars, position, finished>>

\* detect_vehicle is back, or its wait timed out
Detected(c, res) ==
    LET r == [cycle[c] EXCEPT !.detected = res] IN
    /\ cycle[c].pc = "detecting"
    /\ IF res = "yes"
       THEN /\ position' = "open"
            /\ published' = "opening"
            /\ cycle' = [cycle EXCEPT ![c] = [r EXCEPT !.pc = "passing"]]
            /\ UNCHANGED <<lock, finished>>
       ELSE IF res = "no"
       THEN /\ published' = "closed"
            /\ Return(c, r, FALSE)
            /\ UNCHANGED position
       ELSE /\ published' = "closed"
            /\ position' = close_barrier(position)
            /\ cycle' = [cycle EXCEPT ![c] =
                           [r EXCEPT !.pc = "closing", !.final = "none",
                                     !.result = FALSE]]
            /\ UNCHANGED <<lock, finished>>
    /\ UNCHANGED <<edgeVars, queue>>

\* vehicle_passed is back, or its wait timed out: 'closing' is published
\* and close_barrier entered
Passed(c, res) ==
    /\ cycle[c].pc = "passing"
    /\ published' = "closing"
    /\ position' = close_barrier(position)
    /\ cycle' = [cycle EXCEPT ![c] =
                   [@ EXCEPT !.pc = "closing", !.passed = res,
                             !.final = IF res = "no" THEN "none" ELSE "closed",
                             !.result = (res = "yes")]]
    /\ UNCHANGED <<edgeVars, queue, lock, finished>>

\* close_barrier is over: 'closed' is published where the path does so,
\* and open_barrier returns
BarrierClosed(c) ==
    /\ cycle[c].pc = "closing"
    /\ published' = IF cycle[c].final = "closed" THEN "closed" ELSE published
    /\ Return(c, cycle[c], cycle[c].result)
    /\ UNCHANGED <<edgeVars, queue, position>>

------------------------------------------------------------------------------
\* the deployments: server.py always has client and tracker; in
\* server_localTest.py they may be absent, and then ALLOW_EXIT_WITHOUT_CLOUD
\* decides the exits
Configs ==
    { [program |-> "server", cloud |-> TRUE, allowExit |-> TRUE],
      [program |-> "localTest", cloud |-> TRUE, allowExit |-> TRUE],
      [program |-> "localTest", cloud |-> FALSE, allowExit |-> TRUE],
      [program |-> "localTest", cloud |-> FALSE, allowExit |-> FALSE] }

Started ==
    /\ \E c \in Configs :
         program = c.program /\ cloud = c.cloud /\ allowExit = c.allowExit
    /\ sessions \in InitialLedgers
    /\ now = 0
    /\ occ = 0
    /\ bookings = {}
    /\ h = [t \in CamTasks |-> IdleH]
    /\ last = NoLast
    /\ registered = cloud /\ cloudLot = RegisteredLot /\ phase = "running"
    /\ BarrierAtRest

\* two plates, nothing recorded of the handlings that ended
Init == Started /\ texts = PlateTexts /\ audit = FALSE

\* one plate, every ended handling recorded
InitAudit == Started /\ texts = {<<"A">>} /\ audit = TRUE

\* the recognizer returns only blank text, audited
InitBlank == Started /\ texts = BlankTexts /\ audit = TRUE

CallResults == {"ok", "raised"}
CheckResults == {"paid", "unpaid", "raised"}

Next ==
    \/ \E t \in CamTasks : \E header \in CameraIds(t), text \in texts :
         IgnoredEvent(t, header, text)
    \/ \E t \in CamTasks : \E header \in CameraIds(t), text \in texts :
         EntryEvent(t, header, text)
    \/ \E t \in CamTasks : \E header \in CameraIds(t), text \in texts :
         ExitEvent(t, header, text)
    \/ \E t \in CamTasks, res \in CallResults : EnterReturn(t, res)
    \/ \E t \in CamTasks, res \in CheckResults : CheckReturn(t, res)
    \/ \E t \in CamTasks, res \in CallResults : PushReturn(t, res)
    \/ \E t \in CamTasks, res \in CallResults : PayExitReturn(t, res)
    \/ \E t \in CamTasks, reply \in BarrierReplies : BarrierReply(t, reply)
    \/ \E plate \in BookingPlates, action \in BookingActions, res \in CallResults :
         BookingEvent(plate, action, res)

Spec == Init /\ [][Next]_vars

SpecAudit == InitAudit /\ [][Next]_vars
SpecBlank == InitBlank /\ [][Next]_vars

\* What handling t is suspended on comes back: every billing and occupancy
\* request goes through an httpx client built with a timeout, and the
\* barrier request carries one.
Returns(t) ==
    \/ \E res \in CallResults : EnterReturn(t, res)
    \/ \E res \in CheckResults : CheckReturn(t, res)
    \/ \E res \in CallResults : PushReturn(t, res)
    \/ \E res \in CallResults : PayExitReturn(t, res)
    \/ \E reply \in BarrierReplies : BarrierReply(t, reply)

Fairness == \A t \in CamTasks : WF_vars(Returns(t))

\* one plate, nothing recorded, every pending request answered in the end
InitLive == Started /\ texts = {<<"A">>} /\ audit = FALSE

SpecLive == InitLive /\ [][Next]_vars /\ Fairness

------------------------------------------------------------------------------
\* ParkingLotTracker.register and deregister; res is the outcome of the
\* request, should the call send one

\* register() sends its request unless the flag is set
register_sends(reg) == ~reg

\* the flag set before the request has returned
register_flag_first(reg, res) == TRUE

\* the flag after register(): set once the request has returned
register(reg, res) == IF register_sends(reg) THEN res = "ok" ELSE reg

\* deregister() sends its request only if the flag is set
deregister_sends(reg) == reg

\* the flag after deregister(): cleared once the request has returned
deregister(reg, res) == IF deregister_sends(reg) THEN res # "ok" ELSE reg

\* the lot at the cloud after the two calls
lot_registered(lot, reg, res) ==
    IF register_sends(reg) /\ res = "ok" THEN RegisteredLot ELSE lot
lot_deregistered(lot, reg, res) ==
    IF deregister_sends(reg) /\ res = "ok" THEN UnknownLot ELSE lot

------------------------------------------------------------------------------
\* main, from its start to the end of the process

MainEnded(calls, outcome) ==
    [NoLast EXCEPT !.task = "main", !.trace = calls, !.outcome = outcome]

\* main up to "run forever".  server.py builds the tracker without lat and
\* lng: the TypeError ends main before its try/finally is entered.
\* server_localTest.py registers the tracker if the cloud is enabled, and
\* goes on without a tracker when that raised.
Startup(res) ==
    /\ phase = "starting"
    /\ IF program = "server"
       THEN /\ phase' = "stopped"
            /\ last' = MainEnded(<<>>, "raised")
            /\ UNCHANGED <<cloud, registered, cloudLot>>
       ELSE /\ phase' = "running"
            /\ IF cloud
               THEN /\ registered' = register(registered, res)
                    /\ cloudLot' = lot_registered(cloudLot, registered, res)
                    /\ cloud' = registered'
               ELSE UNCHANGED <<cloud, registered, cloudLot>>
            /\ UNCHANGED last
    /\ UNCHANGED <<program, allowExit, texts, audit, barrierVars, sessions, now, occ, bookings, h>>

\* what the finally block of main calls: nc_edge.drain, then nc_cloud.drain
\* and cloud_client.close (in server_localTest.py: for those that exist,
\* which they may even where the tracker does not)
ShutdownCalls ==
    { <<"nc_edge.drain", "nc_cloud.drain", "cloud_client.close">> } \cup
    ( IF cloud THEN {}
      ELSE { <<"nc_edge.drain">>, <<"nc_edge.drain", "nc_cloud.drain">>,
             <<"nc_edge.drain", "cloud_client.close">> } )

\* The process is stopped while it runs forever: the finally block runs,
\* whatever the handlers are waiting for.
Shutdown(calls) ==
    /\ phase = "running"
    /\ phase' = "stopped"
    /\ last' = MainEnded(calls, "stopped")
    /\ UNCHANGED <<registered, cloudLot, program, cloud, allowExit, texts, audit, barrierVars,
                   sessions, now, occ, bookings, h>>

\* one plate; of a lot not yet known to the cloud
InitMain ==
    /\ \E c \in Configs :
         program = c.program /\ cloud = c.cloud /\ allowExit = c.allowExit
    /\ sessions \in InitialLedgers
    /\ now = 0
    /\ occ = 0
    /\ bookings = {}
    /\ h = [t \in CamTasks |-> IdleH]
    /\ last = NoLast
    /\ registered = FALSE /\ cloudLot = UnknownLot /\ phase = "starting"
    /\ BarrierAtRest
    /\ texts = {<<"A">>} /\ audit = FALSE

NextMain ==
    \/ \E res \in CallResults : Startup(res)
    \/ phase = "running" /\ Next
    \/ \E calls \in ShutdownCalls : Shutdown(calls)

SpecMain == InitMain /\ [][NextMain]_vars

------------------------------------------------------------------------------
\* ParkingDatabase and ParkingLotTracker called directly, one call at a time,
\* in any order and with any argument.  last holds the call that returned
\* last: its argument, what it handed back, and the occupancy values it
\* passed to send_occupancy_update.

NoCall ==
    [call |-> "none", plate |-> <<>>, target |-> {}, result |-> "none",
     sent |-> {}, again |-> FALSE]

\* again: the call before was the same method with the same plate
Returned(call, plate, target, result, sent) ==
    [call |-> call, plate |-> plate, target |-> target, result |-> result,
     sent |-> sent, again |-> (last.call = call /\ last.plate = plate)]

\* register_entry and complete_exit have no return statement
register_entry_result(s, plate) == "None"
complete_exit_result(s, plate) == "None"

\* an awaited tracker method hands back None, or the exception of the push
push_result(res) == IF res = "raised" THEN "raised" ELSE "None"

\* targets a caller may pass to update_occupancy
Targets == -1 .. CAR_PARK_CAPACITY + 1

\* the free spaces sent in place of the occupancy
sent_free_spaces(current) == CAR_PARK_CAPACITY - current

\* the value update_occupancy passes to send_occupancy_update:
\* self.current_occupancy, read after the assignment
sent_occupancy(current) == current

CallRegisterEntry(plate) ==
    /\ has_active_session(sessions, plate) \/ Len(sessions) < MaxRows
    /\ now' = IF has_active_session(sessions, plate) THEN now ELSE ClockRead
    /\ sessions' = register_entry(sessions, plate, now')
    /\ last' = Returned("register_entry", plate, {},
                        register_entry_result(sessions, plate), {})
    /\ UNCHANGED <<registered, cloudLot, phase, program, cloud, allowExit, texts, audit, barrierVars, occ, bookings, h>>

CallCompleteExit(plate) ==
    /\ now' = IF has_active_session(sessions, plate) THEN ClockRead ELSE now
    /\ sessions' \in complete_exit(sessions, plate, now')
    /\ last' = Returned("complete_exit", plate, {},
                        complete_exit_result(sessions, plate), {})
    /\ UNCHANGED <<registered, cloudLot, phase, program, cloud, allowExit, texts, audit, barrierVars, occ, bookings, h>>

CallUpdateOccupancy(target, res) ==
    /\ occ' = update_occupancy(target)
    /\ last' = Returned("update_occupancy", <<>>, {target}, push_result(res),
                        {sent_occupancy(occ')})
    /\ cloudLot' = occupancy_posted(cloudLot, sent_occupancy(occ'), res)
    /\ UNCHANGED <<registered, phase, program, cloud, allowExit, texts, audit, barrierVars, sessions, now, bookings, h>>

CallIncrementOccupancy(res) ==
    /\ occ' = increment_occupancy(occ)
    /\ last' = Returned("increment_occupancy", <<>>, {}, push_result(res),
                        {sent_occupancy(occ')})
    /\ cloudLot' = occupancy_posted(cloudLot, sent_occupancy(occ'), res)
    /\ UNCHANGED <<registered, phase, program, cloud, allowExit, texts, audit, barrierVars, sessions, now, bookings, h>>

CallDecrementOccupancy(res) ==
    /\ occ' = decrement_occupancy(occ)
    /\ last' = Returned("decrement_occupancy", <<>>, {}, push_result(res),
                        {sent_occupancy(occ')})
    /\ cloudLot' = occupancy_posted(cloudLot, sent_occupancy(occ'), res)
    /\ UNCHANGED <<registered, phase, program, cloud, allowExit, texts, audit, barrierVars, sessions, now, bookings, h>>

CallAddBooking(plate, res) ==
    /\ IF ~has_booking(bookings, plate)
       THEN /\ bookings' = add_booking(bookings, plate)
            /\ occ' = increment_occupancy(occ)
            /\ last' = Returned("add_booking", plate, {}, push_result(res),
                                {sent_occupancy(occ')})
            /\ cloudLot' = occupancy_posted(cloudLot, sent_occupancy(occ'), res)
       ELSE /\ last' = Returned("add_booking", plate, {}, "None", {})
            /\ UNCHANGED <<bookings, occ, cloudLot>>
    /\ UNCHANGED <<registered, phase, program, cloud, allowExit, texts, audit, barrierVars, sessions, now, h>>

CallConsumeBooking(plate) ==
    /\ bookings' = consume_booking(bookings, plate)
    /\ last' = Returned("consume_booking", plate, {}, "None", {})
    /\ UNCHANGED <<registered, cloudLot, phase, program, cloud, allowExit, texts, audit, barrierVars, sessions, now, occ, h>>

\* cancel_booking: the booking discarded and the occupancy decremented and
\* pushed, only if the plate has a booking
CallCancelBooking(plate, res) ==
    /\ IF has_booking(bookings, plate)
       THEN /\ bookings' = consume_booking(bookings, plate)
            /\ occ' = decrement_occupancy(occ)
            /\ last' = Returned("cancel_booking", plate, {}, push_result(res),
                                {sent_occupancy(occ')})
            /\ cloudLot' = occupancy_posted(cloudLot, sent_occupancy(occ'), res)
       ELSE /\ last' = Returned("cancel_booking", plate, {}, "None", {})
            /\ UNCHANGED <<bookings, occ, cloudLot>>
    /\ UNCHANGED <<registered, phase, program, cloud, allowExit, texts, audit, barrierVars, sessions, now, h>>

InitCalls ==
    /\ program = "localTest" /\ cloud = TRUE /\ allowExit = TRUE
    /\ texts = PlateTexts /\ audit = TRUE
    /\ sessions \in InitialLedgers
    /\ now = 0
    /\ occ = 0
    /\ bookings = {}
    /\ h = [t \in CamTasks |-> IdleH]
    /\ last = NoCall
    /\ registered = TRUE /\ cloudLot = RegisteredLot /\ phase = "running"
    /\ BarrierAtRest

NextCalls ==
    \/ \E plate \in PlateTexts : CallRegisterEntry(plate)
    \/ \E plate \in PlateTexts : CallCompleteExit(plate)
    \/ \E target \in Targets, res \in CallResults : CallUpdateOccupancy(target, res)
    \/ \E res \in CallResults : CallIncrementOccupancy(res)
    \/ \E res \in CallResults : CallDecrementOccupancy(res)
    \/ \E plate \in PlateTexts, res \in CallResults : CallAddBooking(plate, res)
    \/ \E plate \in PlateTexts : CallConsumeBooking(plate)
    \/ \E plate \in PlateTexts, res \in CallResults : CallCancelBooking(plate, res)

SpecCalls == InitCalls /\ [][NextCalls]_vars

------------------------------------------------------------------------------
\* The tracker alone, from its construction on, called directly.  The lot
\* may be known to the cloud from an earlier run of the process.

\* register(): the request is sent unless the flag is set, and the flag is
\* set when the request has returned
CallRegister(res) ==
    /\ registered' = register(registered, res)
    /\ cloudLot' = lot_registered(cloudLot, registered, res)
    /\ last' = Returned("register", <<>>, {},
                        IF register_sends(registered) THEN push_result(res)
                        ELSE "None", {})
    /\ UNCHANGED <<phase, program, cloud, allowExit, texts, audit, barrierVars, sessions, now,
                   occ, bookings, h>>

\* deregister(): the request is sent only if the flag is set, and the flag
\* is cleared when the request has returned
CallDeregister(res) ==
    /\ registered' = deregister(registered, res)
    /\ cloudLot' = lot_deregistered(cloudLot, registered, res)
    /\ last' = Returned("deregister", <<>>, {},
                        IF deregister_sends(registered) THEN push_result(res)
                        ELSE "None", {})
    /\ UNCHANGED <<phase, program, cloud, allowExit, texts, audit, barrierVars, sessions, now,
                   occ, bookings, h>>

InitTracker ==
    /\ program = "localTest" /\ cloud = TRUE /\ allowExit = TRUE
    /\ texts = PlateTexts /\ audit = TRUE
    /\ sessions = <<>>
    /\ now = 0
    /\ occ = 0
    /\ bookings = {}
    /\ h = [t \in CamTasks |-> IdleH]
    /\ last = NoCall
    /\ registered = FALSE /\ cloudLot \in {UnknownLot, RegisteredLot}
    /\ phase = "running"
    /\ BarrierAtRest

NextTracker ==
    \/ \E res \in CallResults : CallRegister(res)
    \/ \E res \in CallResults : CallDeregister(res)
    \/ \E target \in Targets, res \in CallResults : CallUpdateOccupancy(target, res)
    \/ \E res \in CallResults : CallIncrementOccupancy(res)
    \/ \E res \in CallResults : CallDecrementOccupancy(res)
    \/ \E plate \in PlateTexts, res \in CallResults : CallAddBooking(plate, res)
    \/ \E plate \in PlateTexts : CallConsumeBooking(plate)
    \/ \E plate \in PlateTexts, res \in CallResults : CallCancelBooking(plate, res)

SpecTracker == InitTracker /\ [][NextTracker]_vars

------------------------------------------------------------------------------
\* The barrier actuator alone: triggers arrive at any time, with or without
\* reply subject, and each sensor answers yes or no or not in time.

InitBarrier ==
    /\ program = "localTest" /\ cloud = FALSE /\ allowExit = TRUE
    /\ texts = PlateTexts /\ audit = FALSE
    /\ sessions = <<>>
    /\ now = 0
    /\ occ = 0
    /\ bookings = {}
    /\ h = [t \in CamTasks |-> IdleH]
    /\ last = NoLast
    /\ registered = FALSE /\ cloudLot = UnknownLot /\ phase = "running"
    /\ BarrierAtRest

NextBarrier ==
    \/ \E reply \in BOOLEAN : Trigger(reply)
    \/ \E c \in Callbacks : Deliver(c)
    \/ \E c \in Callbacks, res \in SensorResults : Detected(c, res)
    \/ \E c \in Callbacks, res \in SensorResults : Passed(c, res)
    \/ \E c \in Callbacks : BarrierClosed(c)

SpecBarrier == InitBarrier /\ [][NextBarrier]_vars

------------------------------------------------------------------------------
\* Properties

Range(q) == { q[i] : i \in 1..Len(q) }

\* a step of the handler of camera task t
StepOf(t) == h'[t] # h[t]

\* the handler of t sends its barrier request in this step
Requests(t) == h'[t].pc = "barrier_wait" /\ h[t].pc # "barrier_wait"

\* some row goes from inside to completed in this step
Completes ==
    \E i \in 1..Len(sessions) :
        sessions[i].status = "inside" /\ sessions'[i].status = "completed"

\* C1: in every reachable state, whatever the interleaving of entry, exit and
\* booking handlings, the ledger holds at most one 'inside' row for each
\* (plate, car_park_id).
C1_OneInsidePerPlate ==
    \A i, j \in 1..Len(sessions) :
        ( /\ sessions[i].status = "inside" /\ sessions[j].status = "inside"
          /\ sessions[i].plate = sessions[j].plate
          /\ sessions[i].car_park_id = sessions[j].car_park_id ) => i = j

\* a plate that left and came back is inside once while a duplicate entry
\* event for it is being handled
C1_Witness ==
    \E t \in CamTasks :
        /\ h[t].branch = "reentry"
        /\ Cardinality(InsideRows(sessions, h[t].plate, CAR_PARK_ID)) = 1
        /\ \E i \in 1..Len(sessions) :
              sessions[i].plate = h[t].plate /\ sessions[i].status = "completed"

\* C2: a payment check that returns paid=false, or raises, ends the exit
\* handling as denied in that very step: no session row, occupancy or booking
\* changes, payment_exit is not called and no barrier request is sent.
C2_UnpaidExitDenied ==
    [][ \A t \in CamTasks :
          (h[t].pc = "check_wait" /\ StepOf(t) /\ h'[t].paid # "true") =>
             /\ h'[t] = IdleH
             /\ last'.task = t /\ last'.outcome = "denied"
             /\ last'.paid \in {"false", "raised"}
             /\ last'.trace = <<"payment_check">>
             /\ UNCHANGED <<sessions, occ, bookings>> ]_vars

\* an exit was denied after the payment check raised, and the plate's
\* session is still inside
C2_Witness ==
    /\ last.outcome = "denied" /\ last.paid = "raised"
    /\ "payment_check" \in last.failed
    /\ InsideRows(sessions, last.plate, CAR_PARK_ID) # {}
    /\ occ = 1

\* C3 as stated: in every configuration, an exit handling completes a session
\* or sends a barrier request only if its payment check returned paid=true.
C3_OnlyPaidExits ==
    [][ \A t \in CamTasks :
          (StepOf(t) /\ h'[t].ctype = "exit" /\ (Completes \/ Requests(t))) =>
             h'[t].paid = "true" ]_vars

\* C3 amended: an exit handling completes a session or sends a barrier
\* request only if its payment check returned paid=true, or, with the cloud
\* client or tracker absent, if ALLOW_EXIT_WITHOUT_CLOUD is set (and then no
\* payment check is made).
C3_OnlyPaidOrEdgeOnlyExits ==
    [][ \A t \in CamTasks :
          (StepOf(t) /\ h'[t].ctype = "exit" /\ (Completes \/ Requests(t))) =>
             \/ h'[t].paid = "true"
             \/ ~cloud /\ allowExit /\ h'[t].paid = "none" ]_vars

\* a paid exit has completed its session and waits for the barrier
C3_Witness ==
    \E t \in CamTasks :
        /\ h[t].ctype = "exit" /\ h[t].pc = "barrier_wait"
        /\ h[t].paid = "true" /\ h[t].branch = "complete"
        /\ \E i \in 1..Len(sessions) :
              /\ sessions[i].plate = h[t].plate
              /\ sessions[i].car_park_id = CAR_PARK_ID
              /\ sessions[i].status = "completed"


\* C4 as stated: a new-entry handling, and an exit handling whose payment
\* check returned paid=true, return only after having sent their barrier
\* request, whatever payment_car_enter, payment_exit and the occupancy push
\* do: no exception of these calls leaves the handler.
C4_BarrierDespiteCloudFailures ==
    [][ \A t \in CamTasks :
          ( /\ h[t].pc # "idle" /\ h'[t].pc = "idle"
            /\ (h[t].branch = "new" \/ h[t].paid = "true") ) =>
             h[t].pc = "barrier_wait" ]_vars

\* the local occupancy after an increment / a decrement
Incremented(n) == IF n < CAR_PARK_CAPACITY THEN n + 1 ELSE n
Decremented(n) == IF n > 0 THEN n - 1 ELSE 0

\* the calls of handling t that fail in this step
FailsNow(t) ==
    (IF h'[t].pc = "idle" THEN last'.failed ELSE h'[t].failed) \ h[t].failed

\* C5: a failing billing or occupancy call leaves the local state as a
\* successful one does.  When payment_car_enter fails the Inside row stays,
\* and the plate's booking is consumed or else current_occupancy is
\* incremented; current_occupancy is assigned before the push is awaited, and
\* a failing push or payment_exit changes no row, occupancy or booking.
C5_LocalStateAdvances ==
    [][ \A t \in CamTasks :
          /\ (StepOf(t) /\ "payment_car_enter" \in FailsNow(t)) =>
                /\ sessions' = sessions
                /\ IF h[t].plate \in bookings
                   THEN bookings' = bookings \ {h[t].plate} /\ occ' = occ
                   ELSE bookings' = bookings /\ occ' = Incremented(occ)
          /\ (StepOf(t) /\ h'[t].pc = "push_wait") =>
                occ' = IF h'[t].ctype = "entry" THEN Incremented(occ)
                       ELSE Decremented(occ)
          /\ (StepOf(t) /\ FailsNow(t) \cap
                 {"send_occupancy_update", "payment_exit"} # {}) =>
                UNCHANGED <<sessions, occ, bookings>> ]_vars

\* a new entry whose billing call and occupancy push both failed waits for
\* the barrier with its Inside row and the occupancy incremented
C5_Witness ==
    \E t \in CamTasks :
        /\ h[t].pc = "barrier_wait" /\ h[t].branch = "new"
        /\ {"payment_car_enter", "send_occupancy_update"} \subseteq h[t].failed
        /\ InsideRows(sessions, h[t].plate, CAR_PARK_ID) # {}
        /\ occ = 1

\* C6: an entry event for a plate with an Inside session in this car park
\* adds no row, leaves the occupancy and the bookings alone and sends a
\* barrier request, with no cloud call before it.
C6_DuplicateEntry ==
    [][ \A t \in CamTasks :
          ( /\ h[t].pc = "idle" /\ StepOf(t) /\ h'[t].ctype = "entry"
            /\ InsideRows(sessions, h'[t].plate, CAR_PARK_ID) # {} ) =>
             /\ UNCHANGED <<sessions, occ, bookings>>
             /\ h'[t].pc = "barrier_wait"
             /\ h'[t].trace = <<"open_barrier">> ]_vars

\* a duplicate entry waits for the barrier with the one Inside row and the
\* occupancy of the first entry
C6_Witness ==
    \E t \in CamTasks :
        /\ h[t].pc = "barrier_wait" /\ h[t].branch = "reentry"
        /\ Cardinality(InsideRows(sessions, h[t].plate, CAR_PARK_ID)) = 1
        /\ Len(sessions) = 1
        /\ cloud /\ occ = 1

\* the row register_entry writes
NewRow(plate, t) == Append(sessions, [plate |-> plate, car_park_id |-> CAR_PARK_ID,
                                      entry_time |-> t, exit_time |-> NoTime,
                                      status |-> "inside"])

\* C7 as stated, with the cloud client and the tracker present: an entry
\* event for a plate with no Inside session adds exactly one Inside row; with
\* no Reserved booking and current_occupancy < max_capacity the occupancy
\* goes up by exactly one; and the handling returns only after having sent
\* its barrier request.
C7_NewEntry ==
    [][ \A t \in CamTasks :
          /\ ( /\ cloud /\ h[t].pc = "idle" /\ StepOf(t) /\ h'[t].ctype = "entry"
               /\ InsideRows(sessions, h'[t].plate, CAR_PARK_ID) = {} ) =>
                /\ sessions' = NewRow(h'[t].plate, now')
                /\ h'[t].branch = "new"
          /\ ( /\ StepOf(t) /\ h[t].pc = "enter_wait"
               /\ h[t].plate \notin bookings /\ occ < CAR_PARK_CAPACITY ) =>
                occ' = occ + 1 /\ UNCHANGED <<sessions, bookings>>
          /\ ( /\ cloud /\ h[t].branch = "new"
               /\ h[t].pc # "idle" /\ h'[t].pc = "idle" ) =>
                h[t].pc = "barrier_wait" ]_vars

\* C8: an entry event for a plate with a Reserved booking and no Inside
\* session adds the one Inside row; the handling then consumes the booking
\* and sends its barrier request without changing current_occupancy, which
\* keeps the value it has had since the 'book' event.
C8_BookedEntry ==
    [][ \A t \in CamTasks :
          /\ ( /\ h[t].pc = "idle" /\ StepOf(t) /\ h'[t].ctype = "entry"
               /\ h'[t].plate \in bookings
               /\ InsideRows(sessions, h'[t].plate, CAR_PARK_ID) = {} ) =>
                /\ Cardinality(InsideRows(sessions', h'[t].plate, CAR_PARK_ID)) = 1
                /\ Len(sessions') = Len(sessions) + 1
                /\ UNCHANGED <<occ, bookings>>
          /\ ( StepOf(t) /\ h[t].pc = "enter_wait" /\ h[t].plate \in bookings ) =>
                /\ bookings' = bookings \ {h[t].plate}
                /\ UNCHANGED <<occ, sessions>>
                /\ h'[t].pc = "barrier_wait"
                /\ "increment_occupancy" \notin Range(h'[t].trace) ]_vars

\* a booked plate has entered: its booking is gone, it has one Inside row and
\* the occupancy is the one the 'book' event left
C8_Witness ==
    \E t \in CamTasks :
        /\ h[t].pc = "barrier_wait"
        /\ "consume_booking" \in Range(h[t].trace)
        /\ h[t].plate \notin bookings
        /\ Cardinality(InsideRows(sessions, h[t].plate, CAR_PARK_ID)) = 1
        /\ Len(sessions) = 1
        /\ occ = 1

\* C9: an exit event that passes the payment check for a plate with no
\* Inside session sends a barrier request in that step and changes no
\* session row, occupancy or booking.
C9_ExitWithoutSession ==
    [][ \A t \in CamTasks :
          ( /\ StepOf(t) /\ h[t].pc = "check_wait" /\ h'[t].paid = "true"
            /\ InsideRows(sessions, h[t].plate, CAR_PARK_ID) = {} ) =>
             /\ h'[t].pc = "barrier_wait"
             /\ UNCHANGED <<sessions, occ, bookings>> ]_vars

\* a paid exit of a plate that left before waits for the barrier; its
\* Completed row is as the first exit left it
C9_Witness ==
    \E t \in CamTasks :
        /\ h[t].pc = "barrier_wait" /\ h[t].ctype = "exit"
        /\ h[t].branch = "no_session" /\ h[t].paid = "true"
        /\ \E i \in 1..Len(sessions) :
              /\ sessions[i].plate = h[t].plate
              /\ sessions[i].car_park_id = CAR_PARK_ID
              /\ sessions[i].status = "completed"

\* C10: an exit event that passes the payment check for a plate with an
\* Inside session marks that one row Completed with its exit time set and
\* lowers current_occupancy by one, never below 0, in the step of the check;
\* the barrier request is sent in a later step, after both.
C10_PaidExit ==
    [][ \A t \in CamTasks :
          /\ ( /\ StepOf(t) /\ h[t].pc = "check_wait" /\ h'[t].paid = "true"
               /\ InsideRows(sessions, h[t].plate, CAR_PARK_ID) # {} ) =>
                /\ \E i \in InsideRows(sessions, h[t].plate, CAR_PARK_ID) :
                      /\ sessions' = [sessions EXCEPT ![i].status = "completed",
                                                      ![i].exit_time = now']
                      /\ now' # NoTime /\ now' > sessions[i].entry_time
                /\ occ' = (IF occ > 0 THEN occ - 1 ELSE 0)
                /\ ~Requests(t)
          /\ ( /\ Requests(t) /\ h'[t].ctype = "exit"
               /\ h'[t].paid = "true" /\ h'[t].branch = "complete" ) =>
                /\ h[t].pc = "payexit_wait"
                /\ UNCHANGED <<sessions, occ>>
                /\ h'[t].trace = <<"payment_check", "complete_exit",
                                   "decrement_occupancy", "payment_exit",
                                   "open_barrier">> ]_vars

\* a paid exit has completed its row and lowered the occupancy to 0, and
\* now waits for the barrier
C10_Witness ==
    \E t \in CamTasks :
        /\ h[t].pc = "barrier_wait" /\ h[t].ctype = "exit"
        /\ h[t].branch = "complete" /\ h[t].paid = "true"
        /\ occ = 0
        /\ InsideRows(sessions, h[t].plate, CAR_PARK_ID) = {}
        /\ \E i \in 1..Len(sessions) :
              /\ sessions[i].plate = h[t].plate
              /\ sessions[i].car_park_id = CAR_PARK_ID
              /\ sessions[i].status = "completed"
              /\ sessions[i].exit_time > sessions[i].entry_time

\* C11 as stated: an exit handling whose payment check returned paid=true
\* has called payment_exit for its plate before it sends its barrier
\* request.
C11_PaymentExitBeforeBarrier ==
    [][ \A t \in CamTasks :
          (Requests(t) /\ h'[t].ctype = "exit" /\ h'[t].paid = "true") =>
             /\ h[t].pc = "payexit_wait"
             /\ "payment_exit" \in Range(h[t].trace) ]_vars

\* a step that is the return of a direct call of the method
Calls(method) == last'.call = method /\ last' # last

\* C12: register_entry(plate) for a plate that has an Inside row, as it has
\* after a first register_entry with no complete_exit since, changes no row
\* and raises nothing; after any register_entry the plate has exactly one
\* Inside row.
C12_RegisterEntryIdempotent ==
    [][ Calls("register_entry") =>
          /\ Cardinality(InsideRows(sessions', last'.plate, CAR_PARK_ID)) = 1
          /\ last'.result = "None"
          /\ (InsideRows(sessions, last'.plate, CAR_PARK_ID) # {}
                 => sessions' = sessions)
          /\ (last'.again /\ last.result = "None" => sessions' = sessions) ]_vars

\* register_entry has returned twice in succession for a plate, which has
\* one Inside row
C12_Witness ==
    /\ last.call = "register_entry" /\ last.again
    /\ Cardinality(InsideRows(sessions, last.plate, CAR_PARK_ID)) = 1
    /\ \A i \in 1..Len(sessions) :
          sessions[i].plate = last.plate => sessions[i].status = "inside"

\* the rows of s, but for row i completed at time t
CompletedAt(s, i, t) ==
    [j \in 1..Len(s) |->
       IF j = i THEN [s[j] EXCEPT !.status = "completed", !.exit_time = t]
       ELSE s[j]]

\* the most recent Inside rows of the plate in this car park
MostRecentInside(s, plate) ==
    { i \in InsideRows(s, plate, CAR_PARK_ID) :
        \A j \in InsideRows(s, plate, CAR_PARK_ID) :
           s[j].entry_time <= s[i].entry_time }

\* what complete_exit does to the rows, whatever it returns
CompleteExitRows ==
    IF InsideRows(sessions, last'.plate, CAR_PARK_ID) = {}
    THEN sessions' = sessions
    ELSE \E i \in MostRecentInside(sessions, last'.plate) :
            sessions' = CompletedAt(sessions, i, now')

C14_NoBookingNoOp ==
    [][ ( /\ Calls("consume_booking") \/ Calls("cancel_booking")
          /\ last'.plate \notin bookings ) =>
             /\ UNCHANGED <<bookings, occ>>
             /\ last'.result = "None"
             /\ last'.sent = {} ]_vars

\* cancel_booking has returned for a plate without a booking, while another
\* plate is booked and the occupancy is 1
C14_Witness ==
    /\ last.call = "cancel_booking" /\ last.result = "None" /\ last.sent = {}
    /\ last.plate \notin bookings
    /\ bookings # {}
    /\ occ = 1

\* C15 as stated: a booking event with action 'cancel' for a plate that has
\* a booking (the occupancy being positive) removes the booking and lowers
\* current_occupancy by exactly one.
C15_CancelEvent ==
    [][ ( /\ last'.task = BookingTask /\ last'.ctype = "cancel" /\ last' # last
          /\ last'.plate \in bookings /\ occ > 0 ) =>
             /\ bookings' = bookings \ {last'.plate}
             /\ occ' = occ - 1 ]_vars

\* C16 as stated: add_booking(plate) for a plate without a booking records
\* the booking and raises current_occupancy by one; for a plate with a
\* booking it changes neither.
C16_AddBookingPlusOne ==
    [][ Calls("add_booking") =>
          IF last'.plate \notin bookings
          THEN bookings' = bookings \cup {last'.plate} /\ occ' = occ + 1
          ELSE UNCHANGED <<bookings, occ>> ]_vars

\* C16 amended: add_booking(plate) for a plate without a booking records the
\* booking, raises current_occupancy by one if it is below max_capacity and
\* leaves it at max_capacity otherwise, and pushes the value; for a plate
\* with a booking it changes neither and pushes nothing.
C16_AddBooking ==
    [][ Calls("add_booking") =>
          IF last'.plate \notin bookings
          THEN /\ bookings' = bookings \cup {last'.plate}
               /\ occ' = Incremented(occ)
               /\ last'.sent = {occ'}
          ELSE /\ UNCHANGED <<bookings, occ>>
               /\ last'.sent = {} ]_vars

\* add_booking has returned twice in succession for the only booked plate:
\* the occupancy went up once
C16_Witness ==
    /\ last.call = "add_booking" /\ last.again /\ last.sent = {}
    /\ bookings = {last.plate}
    /\ occ = 1

\* the target in range
Clamped(n) == IF n < 0 THEN 0 ELSE IF n > CAR_PARK_CAPACITY THEN CAR_PARK_CAPACITY ELSE n

\* C17: current_occupancy is always within 0..max_capacity, so is every
\* value passed to send_occupancy_update, and update_occupancy with any
\* target, in range or not, transmits the clamped target, which is then the
\* current occupancy.
C17_OccupancyInRange ==
    /\ 0 <= occ /\ occ <= CAR_PARK_CAPACITY
    /\ \A v \in last.sent : 0 <= v /\ v <= CAR_PARK_CAPACITY
    /\ last.call \in {"update_occupancy", "increment_occupancy",
                      "decrement_occupancy"} => last.sent = {occ}
    /\ \A n \in last.target : last.sent = {Clamped(n)}

\* update_occupancy was called above max_capacity and its push raised: the
\* capacity was transmitted and is the occupancy
C17_Witness ==
    /\ last.call = "update_occupancy"
    /\ last.target = {CAR_PARK_CAPACITY + 1}
    /\ last.sent = {CAR_PARK_CAPACITY}
    /\ last.result = "raised"
    /\ occ = CAR_PARK_CAPACITY

\* the handling of t gets the answer to its barrier request in this step
Answered(t) == h[t].pc = "barrier_wait" /\ StepOf(t) /\ last'.task = t

\* C18 as stated: when no responder listens, open_barrier reports success
\* and the handling ends with the ledger, the occupancy and the bookings as
\* they are after a 'done' reply, that is, unchanged by the reply.
C18_NoResponderIsSuccess ==
    [][ \A t \in CamTasks :
          (Answered(t) /\ last'.reply = "no_responders") =>
             /\ last'.outcome = "opened"
             /\ h'[t] = IdleH
             /\ UNCHANGED <<sessions, occ, bookings>> ]_vars

\* C19 as stated: open_barrier reports success exactly when the reply is
\* 'done' or no responder exists, and failure for any other reply and for a
\* timeout.
C19_SuccessIffDone ==
    [][ \A t \in CamTasks :
          Answered(t) =>
             /\ last'.outcome \in {"opened", "not_opened"}
             /\ last'.outcome = "opened" <=>
                   last'.reply \in {"done", "no_responders"} ]_vars

\* how many barrier requests a handling has sent
RequestsSent(r) ==
    Cardinality({ i \in 1..Len(r.trace) : r.trace[i] = "open_barrier" })

\* C20: a handling sends its barrier request at most once, and whatever
\* comes back for it (done, another reply, timeout, no responder) ends the
\* handling: nothing is sent again.
C20_NoRetry ==
    [][ \A t \in CamTasks :
          /\ Requests(t) => RequestsSent(h[t]) = 0 /\ RequestsSent(h'[t]) = 1
          /\ (h[t].pc = "barrier_wait" /\ StepOf(t)) =>
                /\ h'[t] = IdleH
                /\ last'.task = t /\ RequestsSent(last') = 1
                /\ UNCHANGED <<sessions, occ, bookings>> ]_vars

\* a new entry ended on the timeout of its one barrier request
C20_Witness ==
    /\ last.reply = "timeout" /\ last.outcome = "not_opened"
    /\ last.branch = "new"
    /\ RequestsSent(last) = 1
    /\ last.task \in CamTasks /\ h[last.task] = IdleH
------------------------------------------------------------------------------
\* the plate of the handling that takes a step in task u
SteppingPlate(u) == IF h[u].pc = "idle" THEN h'[u].plate ELSE h[u].plate

\* task t is between its first ledger read and its barrier request
InLedgerWindow(t) == h[t].pc \in {"enter_wait", "push_wait", "payexit_wait"}

\* C21: handlings for one plate never interleave: while a handling is
\* between its first ledger read and its barrier request, no other handling
\* for the same plate takes a step.
C21_SamePlateSerialized ==
    [][\A t \in CamTasks : \A u \in CamTasks \ {t} :
          InLedgerWindow(t) /\ StepOf(u) => SteppingPlate(u) # h[t].plate]_vars

\* subscription t takes up an event for a plate other than the given one
TakesUpOther(t, plate) ==
    \E header \in CameraIds(t), text \in texts :
       /\ plate_text(text) # plate
       /\ \/ IgnoredEvent(t, header, text)
          \/ EntryEvent(t, header, text)
          \/ ExitEvent(t, header, text)

\* C22: while a handling waits for the barrier's reply or timeout, an event
\* for a different plate can be taken up, at the same checkpoint as at the
\* other: the wait holds up no plate but its own.
C22_BarrierWaitScoped ==
    \A t \in CamTasks :
       h[t].pc = "barrier_wait" =>
          \A u \in CamTasks : ENABLED TakesUpOther(u, h[t].plate)

\* C23: when the process shuts down with the tracker registered, the
\* shutdown asks the cloud to deregister the lot.
C23_DeregisterAtShutdown ==
    [][phase = "running" /\ phase' = "stopped" /\ registered
          => "deregister_parking_lot" \in Range(last'.trace)]_vars

\* C24: tracker.registered becomes true only by a register() whose request
\* succeeded, and then the cloud knows the lot; a register() whose request
\* raised leaves it false; a deregister() whose request succeeded makes it
\* false; register() while registered and deregister() while not registered
\* send no request: whatever the cloud would answer, they raise nothing and
\* nothing changes at the cloud or in the flag.
C24_RegisteredFlag ==
    [][ /\ registered' => cloudLot'.known
        /\ registered' /\ ~registered =>
               Calls("register") /\ last'.result = "None"
        /\ Calls("register") /\ last'.result = "raised" => ~registered'
        /\ Calls("register") /\ registered =>
               last'.result = "None" /\ cloudLot' = cloudLot /\ registered'
        /\ Calls("deregister") /\ ~registered =>
               last'.result = "None" /\ cloudLot' = cloudLot /\ ~registered'
        /\ Calls("deregister") /\ registered /\ last'.result = "None" =>
               ~registered' ]_vars

\* a registration has failed and the flag is false
C24_Witness ==
    last.call = "register" /\ last.result = "raised" /\ ~registered

\* C25: a booking message without plate, or with an action that is neither
\* "book" nor "cancel", changes neither the booking set nor the occupancy
\* (nor the ledger), and the handler ends without an error leaving it.
C25_UnknownBookingIgnored ==
    [][ /\ last'.task = BookingTask
        /\ last' # last
        /\ last'.plate = <<>> \/ last'.ctype \notin {"book", "cancel"}
        => /\ UNCHANGED <<bookings, occ, sessions>>
           /\ last'.outcome \in {"no_plate", "unknown_action"} ]_vars

\* an "extend" message for a booked plate was dropped: the booking is there
C25_Witness ==
    /\ last.task = BookingTask /\ last.ctype = "extend"
    /\ last.outcome = "unknown_action"
    /\ last.plate \in bookings /\ occ = 1

\* C26: a camera event whose plate is empty or blank is dropped: no
\* subscription takes up a handling for it (no ledger read or write, no
\* billing call, no barrier request), and it leaves the ledger, the
\* occupancy and the bookings as they are.
C26_BlankPlateIgnored ==
    [][ \A t \in CamTasks :
          ~(Free(t) /\ StepOf(t) /\ strip(h'[t].plate) = <<>>) ]_vars

\* C27: no operation removes a session row (a row keeps its place, plate,
\* car park and entry time), a row that is Completed never changes again,
\* and a status changes only from Inside to Completed.
C27_RowsKept ==
    [][ /\ Len(sessions') >= Len(sessions)
        /\ \A i \in 1..Len(sessions) :
             /\ sessions'[i].plate = sessions[i].plate
             /\ sessions'[i].car_park_id = sessions[i].car_park_id
             /\ sessions'[i].entry_time = sessions[i].entry_time
             /\ sessions[i].status = "completed" => sessions'[i] = sessions[i]
             /\ sessions'[i].status # sessions[i].status =>
                   sessions[i].status = "inside" /\ sessions'[i].status = "completed"
      ]_vars

\* the plate's first row was completed and a later register_entry has added
\* a second, Inside row: the Completed row is there, as complete_exit left it
C27_Witness ==
    /\ last.call = "register_entry"
    /\ Len(sessions) = 2
    /\ sessions[1].plate = last.plate /\ sessions[1].status = "completed"
    /\ sessions[1].car_park_id = CAR_PARK_ID
    /\ sessions[1].exit_time < sessions[2].entry_time
    /\ sessions[2].plate = last.plate /\ sessions[2].status = "inside"

\* C28: on a registered tracker, when an increment_occupancy or
\* decrement_occupancy call has returned with its push accepted, the
\* occupancy the cloud holds for the lot is tracker.current_occupancy.
C28_CloudInSync ==
    /\ registered
    /\ last.call \in {"increment_occupancy", "decrement_occupancy"}
    /\ last.result = "None"
    => cloudLot.occ = {occ}

\* a decrement followed an increment on a registered tracker, and the cloud
\* holds the occupancy of the tracker
C28_Witness ==
    /\ registered /\ cloudLot.known
    /\ last.call = "decrement_occupancy" /\ last.result = "None"
    /\ last.sent = {0} /\ cloudLot.occ = {0} /\ occ = 0

\* the calls of a new-entry handling up to its barrier request: with the
\* cloud client and tracker, and in edge-only mode
NewEntryOrders ==
    IF cloud
    THEN { <<"register_entry", "payment_car_enter", "consume_booking", "open_barrier">>,
           <<"register_entry", "payment_car_enter", "increment_occupancy",
             "open_barrier">> }
    ELSE { <<"register_entry", "open_barrier">> }

\* C29: a new-entry handling first writes the Inside row, then attempts
\* payment_car_enter, then consumes the booking or increments the occupancy,
\* and only then sends the barrier request: the row is written in the step
\* that takes the event up, the booking or the occupancy is dealt with in
\* the step in which payment_car_enter comes back, no barrier request has
\* gone out before, and the request goes out with the calls in that order.
C29_NewEntryOrder ==
    [][ \A t \in CamTasks :
          /\ h[t].pc = "idle" /\ StepOf(t) /\ h'[t].branch = "new" =>
                /\ sessions' = NewRow(h'[t].plate, now')
                /\ Head(h'[t].trace) = "register_entry"
                /\ UNCHANGED <<occ, bookings>>
          /\ h[t].pc = "enter_wait" /\ StepOf(t) =>
                /\ h[t].trace = <<"register_entry", "payment_car_enter">>
                /\ IF h[t].plate \in bookings
                   THEN bookings' = bookings \ {h[t].plate} /\ occ' = occ
                   ELSE bookings' = bookings /\ occ' = Incremented(occ)
                /\ UNCHANGED sessions
          /\ h[t].branch = "new" /\ h[t].pc \in {"enter_wait", "push_wait"} =>
                RequestsSent(h[t]) = 0
          /\ Requests(t) /\ h'[t].branch = "new" =>
                h'[t].trace \in NewEntryOrders ]_vars

\* a new entry has got as far as its barrier request: the row is written
\* and the occupancy counted
C29_Witness ==
    \E t \in CamTasks :
       /\ h[t].pc = "barrier_wait" /\ h[t].branch = "new"
       /\ h[t].trace = <<"register_entry", "payment_car_enter",
                         "increment_occupancy", "open_barrier">>
       /\ InsideRows(sessions, h[t].plate, CAR_PARK_ID) # {}
       /\ occ = 1

\* the Inside rows of this car park
InsideNow == { i \in 1..Len(sessions) :
                 sessions[i].car_park_id = CAR_PARK_ID /\ sessions[i].status = "inside" }

\* the ledger was empty when the tracker was built: every row is of this run
StartedEmpty == \A i \in 1..Len(sessions) : sessions[i].car_park_id = CAR_PARK_ID

\* C30: with the cloud client and tracker present and a ledger that was
\* empty at the start, whenever no handling is in progress the occupancy is
\* the number of Inside sessions plus the number of Reserved bookings.
C30_OccupancyMatchesLedger ==
    /\ cloud /\ StartedEmpty
    /\ \A t \in CamTasks : h[t].pc = "idle"
    => occ = Cardinality(InsideNow) + Cardinality(bookings)

\* C31: when the barrier request of a new-entry handling times out or is
\* answered with something other than 'done', the step that ends the
\* handling leaves the ledger, the occupancy and the bookings as they are
\* (nothing is rolled back); and an entry event for a plate that has its
\* Inside row takes the re-entry path and adds no row.
C31_NoRollback ==
    [][ \A t \in CamTasks :
          /\ ( /\ Answered(t) /\ h[t].branch = "new"
               /\ last'.reply \in {"failed", "timeout"} ) =>
                UNCHANGED <<sessions, occ, bookings>>
          /\ ( /\ h[t].pc = "idle" /\ StepOf(t) /\ h'[t].ctype = "entry"
               /\ InsideRows(sessions, h'[t].plate, CAR_PARK_ID) # {} ) =>
                h'[t].branch = "reentry" /\ UNCHANGED <<sessions, occ, bookings>>
      ]_vars

\* the barrier request of a new entry timed out, and the next entry event
\* for the plate is on the re-entry path: one row, the occupancy counted once
C31_Witness ==
    /\ last.task = "camera.entry" /\ last.branch = "new" /\ last.reply = "timeout"
    /\ h["camera.entry"].branch = "reentry"
    /\ h["camera.entry"].plate = last.plate
    /\ Len(sessions) = 1
    /\ InsideRows(sessions, last.plate, CAR_PARK_ID) = {1}
    /\ occ = 1

\* C32: a step of a handling for plate P changes no session row of another
\* plate and no row of another car park, adds rows only for P in this car
\* park, and changes no booking but P's.
C32_OtherPlatesUntouched ==
    [][ \A t \in CamTasks :
          StepOf(t) =>
             /\ \A i \in 1..Len(sessions) :
                   \/ sessions'[i] = sessions[i]
                   \/ /\ sessions[i].plate = SteppingPlate(t)
                      /\ sessions[i].car_park_id = CAR_PARK_ID
             /\ \A i \in (Len(sessions) + 1)..Len(sessions') :
                   /\ sessions'[i].plate = SteppingPlate(t)
                   /\ sessions'[i].car_park_id = CAR_PARK_ID
             /\ bookings' \ {SteppingPlate(t)} = bookings \ {SteppingPlate(t)}
      ]_vars

\* plate 'A' has entered and left this car park while another car park's
\* row for 'A' is in the same table: that row is Inside as it was
C32_Witness ==
    /\ Len(sessions) = 2
    /\ sessions[1].car_park_id = OTHER_PARK_ID /\ sessions[1].status = "inside"
    /\ sessions[1].exit_time = NoTime
    /\ sessions[2].car_park_id = CAR_PARK_ID /\ sessions[2].status = "completed"
    /\ sessions[2].plate = sessions[1].plate

\* every handling in progress comes to its end
Terminates == \A t \in CamTasks : (h[t].pc # "idle") ~> (h[t].pc = "idle")

\* C33: every checkpoint handling terminates, given that each billing call
\* and the barrier request returns, fails or times out, and it ends with
\* one terminal outcome: its barrier request sent (once), or the exit
\* denied with no request sent.  (An ignored event ends in the step that
\* takes it up.)
C33_TerminatesWithOutcome ==
    /\ Terminates
    /\ [][ \A t \in CamTasks :
             h[t].pc # "idle" /\ h'[t].pc = "idle" =>
                \/ h[t].pc = "barrier_wait" /\ RequestsSent(h[t]) = 1
                \/ h[t].pc = "check_wait" /\ RequestsSent(h[t]) = 0 ]_vars

\* subscription t runs the logic of its own checkpoint type on a message
\* that carries no camera_id header
HeaderlessBySubject(t) ==
    \E text \in texts :
       IF t = "camera.entry" THEN EntryEvent(t, NoHeader, text)
       ELSE ExitEvent(t, NoHeader, text)

\* C34: a camera message without camera_id header is handled as an event of
\* the checkpoint type of its subject: whenever a subscription is free (and
\* the ledger has room for a row), such a message on camera.entry runs the
\* entry logic and one on camera.exit the exit logic.
C34_HeaderlessHandledBySubject ==
    \A t \in CamTasks :
       Free(t) /\ Len(sessions) < MaxRows => ENABLED HeaderlessBySubject(t)

\* the camera id names a checkpoint type other than entry and exit
OtherType(id) == id[1] \notin {"entry", "exit"}

\* C35: an event whose checkpoint type is neither 'entry' nor 'exit' is
\* dropped: no handling is taken up for it (no ledger call, no billing call,
\* no barrier request), and the handler returns with the ledger, the
\* occupancy and the bookings as they were.
C35_UnknownTypeIgnored ==
    [][ \A t \in CamTasks :
          /\ h[t].pc = "idle" /\ StepOf(t) => ~OtherType(h'[t].barrier_id)
          /\ ( /\ last'.task = t /\ last' # last
               /\ OtherType(last'.barrier_id) ) =>
                /\ last'.outcome = "ignored" /\ last'.trace = <<>>
                /\ UNCHANGED <<sessions, occ, bookings, h>> ]_vars

\* an event of camera gate_0 for plate 'A' was dropped while 'A' is inside
C35_Witness ==
    /\ last.barrier_id = <<"gate", "0">> /\ last.outcome = "ignored"
    /\ last.plate = <<"A">>
    /\ InsideRows(sessions, <<"A">>, CAR_PARK_ID) # {}
    /\ occ = 1


------------------------------------------------------------------------------
\* the barrier actuator

\* callback c enters open_barrier and publishes 'checking'
CycleStarts(c) == cycle[c].pc = "idle" /\ cycle'[c].pc = "detecting"

\* open_barrier of callback c returns
CycleEnds(c) == cycle[c].pc # "idle" /\ cycle'[c].pc = "idle"

\* C36: two triggers to one barrier actuator never run overlapping
\* open/close cycles: a cycle publishes its 'checking' only when every
\* call to open_barrier before it has returned.
C36_CyclesDoNotOverlap ==
    [][\A c \in Callbacks :
         CycleStarts(c) =>
           /\ published' = "checking"
           /\ \A d \in Callbacks \ {c} : cycle[d].pc = "idle" /\ cycle'[d].pc = "idle"]_vars

\* a second cycle has published 'checking' after the first one returned,
\* its trigger having waited in the subscription meanwhile
C36_Witness ==
    /\ finished.callback # 0
    /\ published = "checking"
    /\ \E c \in Callbacks : cycle[c].pc = "detecting"
    /\ queue # <<>>


\* C37: the actuator replies 'done' only if the vehicle was detected and
\* then passed, each within its timeout; on every other outcome of
\* open_barrier it replies 'failed'; and it publishes a reply only when
\* the trigger carries a reply subject.
C37_ReplyTellsOutcome ==
    finished.callback # 0 =>
      IF finished.reply
      THEN finished.payload =
             IF finished.detected = "yes" /\ finished.passed = "yes"
             THEN "done" ELSE "failed"
      ELSE finished.payload = "none"

\* a request was answered 'failed' because the vehicle, detected, did not
\* pass within the timeout
C37_Witness ==
    /\ finished.reply
    /\ finished.detected = "yes" /\ finished.passed = "timeout"
    /\ finished.payload = "failed"


\* C38: whenever open_barrier ends, with True, with False or after a
\* timeout of either sensor, the barrier is in the closed position.
C38_ClosedWhenCycleEnds ==
    [][\A c \in Callbacks : CycleEnds(c) => position' = "closed"]_vars

\* a cycle that had opened the barrier ended after vehicle_passed timed
\* out, and the barrier is closed
C38_Witness ==
    /\ finished.detected = "yes" /\ finished.passed = "timeout"
    /\ \A c \in Callbacks : cycle[c].pc = "idle"
    /\ position = "closed"

\* C39: on every path through open_barrier the state published last on
\* <barrier_id>.state is 'closed', so that an observer of the stream never
\* keeps 'checking', 'opening' or 'closing' for a finished cycle.
C39_LastStateClosed ==
    [][\A c \in Callbacks : CycleEnds(c) => published' = "closed"]_vars

====
